---- MODULE Spec2Model ----
(***************************************************************************)
(* Model of the RAWG ingestion pipeline: GameDataIngestor (bronze layer,   *)
(* src/src/ingestor.py) and GameTransformer (silver layer,                 *)
(* src/src/transformer.py).  The Delta tables are sequences of rows in     *)
(* append order; the fetcher (RawgApiClient.get_resource) and the storage  *)
(* library are the environment, whose answers and failures are inputs.     *)
(***************************************************************************)
EXTENDS Integers, Sequences, FiniteSets, TLC

VARIABLES store, today, sortKind, runs, truns, lastOp,
          preI, lastI, prevI, preT, lastT, gruns, lastG, loop

vars == <<store, today, sortKind, runs, truns, lastOp,
          preI, lastI, prevI, preT, lastT, gruns, lastG, loop>>

(* ---------------------------- bounds ----------------------------------- *)
MaxPage == 2
MaxRuns == 2
MaxDay == 2
MaxTRuns == 2
MaxGenres == 2
MaxGRuns == 2
MaxBatch == 3
MaxRichRuns == 1

(* ---------------------------- cell values ------------------------------ *)
\* A cell of a DataFrame / of a raw record: None, a number, a string (as a
\* sequence of tokens), a date string (by its year) or a list of mappings
\* {"name": x} (by the names).
Null == [t |-> "null", n |-> 0, s |-> <<>>]
Num(k) == [t |-> "num", n |-> k, s |-> <<>>]
Txt(toks) == [t |-> "str", n |-> 0, s |-> toks]
Date(y) == [t |-> "date", n |-> y, s |-> <<>>]
List(names) == [t |-> "list", n |-> 0, s |-> names]

IsNull(c) == c.t = "null"

\* Records the upstream API can return (RawRecord).
Catalogue ==
  { [id |-> Num(1), rating |-> Num(4), metacritic |-> Num(90),
     released |-> Date(2020), genres |-> List(<<"Action", "RPG">>)],
    [id |-> Num(1), rating |-> Num(5), metacritic |-> Num(85),
     released |-> Date(2020), genres |-> List(<<"RPG">>)],
    [id |-> Num(2), rating |-> Num(3), metacritic |-> Null,
     released |-> Null, genres |-> Null] }

(* ---------------------------- fetcher answers -------------------------- *)
\* What get_resource gives for one page: it raises ("fail"), returns a falsy
\* value or a mapping without "results" ("invalid"), or returns a page.
FetchFail == [kind |-> "fail", results |-> <<>>, next |-> FALSE]
FetchInvalid == [kind |-> "invalid", results |-> <<>>, next |-> FALSE]
Page(rs, nx) == [kind |-> "page", results |-> rs, next |-> nx]

PageResults == {<<>>} \cup {<<g>> : g \in Catalogue}

Responses == {FetchFail, FetchInvalid}
             \cup {Page(rs, nx) : rs \in PageResults, nx \in BOOLEAN}

\* max_pages: None is modelled as -1.
NoCap == -1
MaxPagesArgs == {NoCap} \cup (0 .. MaxPage)

\* Faulty variant of the truth test: 0 counts as a cap.
TruthyZeroIsCap(maxPages) == maxPages # NoCap

\* "if max_pages": None and 0 are falsy.
Truthy(maxPages) == maxPages # NoCap /\ maxPages # 0

(* ---------------------------- pagination loop -------------------------- *)
\* Faulty variant of the loop: a failed fetch discards the pages accumulated.
RECURSIVE PageLoopDiscards(_, _, _, _, _)
PageLoopDiscards(resp, maxPages, page, all_games, fetched) ==
  IF Truthy(maxPages) /\ page > maxPages
  THEN [all_games |-> all_games, fetched |-> fetched, stop |-> "cap"]
  ELSE LET response == resp[page]
           seen == Append(fetched, response)
       IN IF response.kind = "fail"
          THEN [all_games |-> <<>>, fetched |-> seen, stop |-> "error"]
          ELSE IF response.kind = "invalid"
          THEN [all_games |-> all_games, fetched |-> seen, stop |-> "invalid"]
          ELSE IF response.results = <<>>
          THEN [all_games |-> all_games, fetched |-> seen, stop |-> "emptypage"]
          ELSE IF ~response.next
          THEN [all_games |-> all_games \o response.results,
                fetched |-> seen, stop |-> "nomore"]
          ELSE PageLoopDiscards(resp, maxPages, page + 1,
                                all_games \o response.results, seen)

\* State of the while loop: page, all_games, the responses consumed so far
\* and the reason of the break.
RECURSIVE PageLoop(_, _, _, _, _)
PageLoop(resp, maxPages, page, all_games, fetched) ==
  IF Truthy(maxPages) /\ page > maxPages
  THEN [all_games |-> all_games, fetched |-> fetched, stop |-> "cap"]
  ELSE LET response == resp[page]
           seen == Append(fetched, response)
       IN IF response.kind = "fail"
          THEN [all_games |-> all_games, fetched |-> seen, stop |-> "error"]
          ELSE IF response.kind = "invalid"
          THEN [all_games |-> all_games, fetched |-> seen, stop |-> "invalid"]
          ELSE IF response.results = <<>>
          THEN [all_games |-> all_games, fetched |-> seen, stop |-> "emptypage"]
          ELSE IF ~response.next
          THEN [all_games |-> all_games \o response.results,
                fetched |-> seen, stop |-> "nomore"]
          ELSE PageLoop(resp, maxPages, page + 1,
                        all_games \o response.results, seen)

Paginate(resp, maxPages) == PageLoop(resp, maxPages, 1, <<>>, <<>>)

\* The upstream data is finite: the loop never asks for a page beyond MaxPage.
RECURSIVE Finite(_, _, _)
Finite(resp, maxPages, page) ==
  IF Truthy(maxPages) /\ page > maxPages THEN TRUE
  ELSE IF page > MaxPage THEN FALSE
  ELSE LET response == resp[page]
       IN IF response.kind # "page" \/ response.results = <<>> \/ ~response.next
          THEN TRUE
          ELSE Finite(resp, maxPages, page + 1)

(* ---------------------------- the loop, step by step ------------------- *)
\* The same while loop in steps: the call's page cap, the loop variables
\* page and all_games, the page numbers asked of the fetcher and its answers
\* in the order received, and the reason of the break.  pc is "loop" at the
\* head of an iteration and "fetching" while get_resource runs.
NoLoop == [pc |-> "idle", maxPages |-> NoCap, page |-> 0, all_games |-> <<>>,
           requested |-> <<>>, fetched |-> <<>>, stop |-> "none"]

\* Lines 70 to 72.
LoopEntry(maxPages) ==
  [pc |-> "loop", maxPages |-> maxPages, page |-> 1, all_games |-> <<>>,
   requested |-> <<>>, fetched |-> <<>>, stop |-> "none"]

\* Faulty variant of the head of the iteration: the cap lets one page more
\* through.
LoopRequestOneMore(l) ==
  IF Truthy(l.maxPages) /\ l.page > l.maxPages + 1
  THEN [l EXCEPT !.pc = "done", !.stop = "cap"]
  ELSE [l EXCEPT !.pc = "fetching", !.requested = Append(@, l.page)]

\* Lines 75 to 92: the cap test, then the call of get_resource for l.page.
LoopRequest(l) ==
  IF Truthy(l.maxPages) /\ l.page > l.maxPages
  THEN [l EXCEPT !.pc = "done", !.stop = "cap"]
  ELSE [l EXCEPT !.pc = "fetching", !.requested = Append(@, l.page)]

\* Faulty variant of the end of the iteration: a page without next link is
\* followed by the request of the page after it.
LoopReceiveIgnoresNext(l, response) ==
  LET got == [l EXCEPT !.fetched = Append(@, response)]
  IN IF response.kind = "fail"
     THEN [got EXCEPT !.pc = "done", !.stop = "error"]
     ELSE IF response.kind = "invalid"
     THEN [got EXCEPT !.pc = "done", !.stop = "invalid"]
     ELSE IF response.results = <<>>
     THEN [got EXCEPT !.pc = "done", !.stop = "emptypage"]
     ELSE IF ~response.next /\ l.page >= MaxPage
     THEN [got EXCEPT !.pc = "done", !.stop = "nomore",
                      !.all_games = @ \o response.results]
     ELSE [got EXCEPT !.pc = "loop", !.page = @ + 1,
                      !.all_games = @ \o response.results]

\* Lines 92 to 109: get_resource returns or raises, and the loop breaks or
\* goes to the next page.
LoopReceive(l, response) ==
  LET got == [l EXCEPT !.fetched = Append(@, response)]
  IN IF response.kind = "fail"
     THEN [got EXCEPT !.pc = "done", !.stop = "error"]
     ELSE IF response.kind = "invalid"
     THEN [got EXCEPT !.pc = "done", !.stop = "invalid"]
     ELSE IF response.results = <<>>
     THEN [got EXCEPT !.pc = "done", !.stop = "emptypage"]
     ELSE IF ~response.next
     THEN [got EXCEPT !.pc = "done", !.stop = "nomore",
                      !.all_games = @ \o response.results]
     ELSE [got EXCEPT !.pc = "loop", !.page = @ + 1,
                      !.all_games = @ \o response.results]

Continues(response) ==
  response.kind = "page" /\ response.results # <<>> /\ response.next

\* A call of get_games_incremental enters the loop.
StartLoop ==
  /\ loop.pc \in {"idle", "done"}
  /\ \E maxPages \in MaxPagesArgs : loop' = LoopEntry(maxPages)
  /\ UNCHANGED <<store, today, sortKind, runs, truns, lastOp,
                 preI, lastI, prevI, preT, lastT, gruns, lastG>>

\* The head of an iteration.
RequestPage ==
  /\ loop.pc = "loop"
  /\ loop' = LoopRequest(loop)
  /\ UNCHANGED <<store, today, sortKind, runs, truns, lastOp,
                 preI, lastI, prevI, preT, lastT, gruns, lastG>>

\* The fetcher answers, whatever it answers; the upstream data is finite, so
\* from page MaxPage on no further page is announced unless the cap ends
\* the loop first.
ReceivePage ==
  /\ loop.pc = "fetching"
  /\ \E response \in Responses :
       /\ Continues(response) =>
            \/ loop.page < MaxPage
            \/ Truthy(loop.maxPages) /\ loop.page + 1 > loop.maxPages
       /\ loop' = LoopReceive(loop, response)
  /\ UNCHANGED <<store, today, sortKind, runs, truns, lastOp,
                 preI, lastI, prevI, preT, lastT, gruns, lastG>>

(* ---------------------------- JSON text -------------------------------- *)
\* json.dumps of a list of mappings {"name": x}, as a sequence of tokens.
RECURSIVE DumpItems(_, _)
DumpItems(names, i) ==
  IF i > Len(names) THEN <<>>
  ELSE (IF i > 1 THEN <<",">> ELSE <<>>)
       \o <<"{", "name", ":", names[i], "}">> \o DumpItems(names, i + 1)

JsonDumps(names) == <<"[">> \o DumpItems(names, 1) \o <<"]">>

(* ---------------------------- record normalizer ------------------------ *)
Columns == {"id", "rating", "metacritic", "released", "genres"}

\* Of the allow-list (platforms, parent_platforms, genres, stores, tags,
\* esrb_rating, short_screenshots) the modelled records carry genres.
complex_cols == {"genres"}

\* Faulty variant of safe_serialize: a list is written with str(), which is
\* not JSON text (the keys come out in single quotes).
safe_serialize_str(x) ==
  IF x.t = "null" THEN Null
  ELSE IF x.t = "list" THEN Txt(<<"repr">> \o JsonDumps(x.s))
  ELSE IF x.t = "num" THEN Txt(<<ToString(x.n)>>)
  ELSE x

safe_serialize(x) ==
  IF x.t = "null" THEN Null
  ELSE IF x.t = "list" THEN Txt(JsonDumps(x.s))
  ELSE IF x.t = "num" THEN Txt(<<ToString(x.n)>>)
  ELSE x

\* Series.astype(str): None becomes the string 'None'.
AsTypeStr(x) == IF x.t = "null" THEN Txt(<<"None">>) ELSE x

\* Series.replace('None', None)
ReplaceNone(x) == IF x = Txt(<<"None">>) THEN Null ELSE x

AllNull(all_games, col) ==
  \A i \in 1 .. Len(all_games) : IsNull(all_games[i][col])

AnyNested(all_games, col) ==
  \E i \in 1 .. Len(all_games) : all_games[i][col].t = "list"

NormalizeCell(all_games, col, x) ==
  IF AllNull(all_games, col) THEN AsTypeStr(x)
  ELSE IF col \in complex_cols \/ AnyNested(all_games, col)
       THEN ReplaceNone(AsTypeStr(safe_serialize(x)))
       ELSE x

\* The DataFrame written to bronze: one row per accumulated record, with
\* the audit columns (which the column loop leaves as they are).
BuildFrame(all_games, ts, day) ==
  [i \in 1 .. Len(all_games) |->
     [id |-> NormalizeCell(all_games, "id", all_games[i].id),
      rating |-> NormalizeCell(all_games, "rating", all_games[i].rating),
      metacritic |-> NormalizeCell(all_games, "metacritic", all_games[i].metacritic),
      released |-> NormalizeCell(all_games, "released", all_games[i].released),
      genres |-> NormalizeCell(all_games, "genres", all_games[i].genres),
      extraction_ts |-> ts,
      extraction_date |-> day]]

(* ---------------------------- Delta tables ----------------------------- *)
\* A table path: no directory, a directory that holds no Delta table, or a
\* Delta table with its rows in append order.
games_path == "bronze/games"

\* Faulty variant of the refined path: the bronze games table.
refined_path_bronze == games_path

refined_path == "silver/games_refined"
analytics_path == "silver/games_analytics"

genres_path == "bronze/genres"

Paths == {games_path, refined_path, analytics_path, genres_path}

NoTable == [state |-> "absent", rows |-> <<>>]

\* Faulty variants of the delete: it removes nothing, or every row.
DeleteNothing(tbl, day) == tbl

DeleteAll(tbl, day) == [tbl EXCEPT !.rows = <<>>]

\* dt.delete("extraction_date = 'D'")
DeleteWhere(tbl, day) ==
  [tbl EXCEPT !.rows = SelectSeq(tbl.rows, LAMBDA r : r.extraction_date # day)]

\* write_deltalake(path, df, mode="append")
WriteAppend(tbl, df) == [state |-> "table", rows |-> tbl.rows \o df]

\* Faulty variant of the overwrite: it appends.
WriteOverwriteAppends(tbl, df) == [state |-> "table", rows |-> tbl.rows \o df]

\* write_deltalake(path, df, mode="overwrite")
WriteOverwrite(tbl, df) == [state |-> "table", rows |-> df]

(* ---------------------------- idempotent write ------------------------- *)
\* The storage call that raises in this run, if any.
Faults == {"none", "open", "delete", "append"}

\* Faulty variant of the try block: a day's partition is only replaced by a
\* batch that is at least as long.
TryWriteNeverShrinks(tbl, df, day, fault) ==
  IF tbl.state # "absent"
  THEN IF tbl.state = "nondelta" \/ fault = "open"
       THEN [tbl |-> tbl, raised |-> TRUE]
       ELSE IF fault = "delete"
       THEN [tbl |-> tbl, raised |-> TRUE]
       ELSE IF fault = "append"
       THEN [tbl |-> DeleteWhere(tbl, day), raised |-> TRUE]
       ELSE IF Len(df) < Len(SelectSeq(tbl.rows, LAMBDA r : r.extraction_date = day))
       THEN [tbl |-> tbl, raised |-> FALSE]
       ELSE [tbl |-> WriteAppend(DeleteWhere(tbl, day), df), raised |-> FALSE]
  ELSE IF fault = "append"
       THEN [tbl |-> tbl, raised |-> TRUE]
       ELSE [tbl |-> WriteAppend(tbl, df), raised |-> FALSE]

\* The try block: the table it leaves and whether an exception was raised.
TryWrite(tbl, df, day, fault) ==
  IF tbl.state # "absent"
  THEN IF tbl.state = "nondelta" \/ fault = "open"
       THEN [tbl |-> tbl, raised |-> TRUE]
       ELSE IF fault = "delete"
       THEN [tbl |-> tbl, raised |-> TRUE]
       ELSE IF fault = "append"
       THEN [tbl |-> DeleteWhere(tbl, day), raised |-> TRUE]
       ELSE [tbl |-> WriteAppend(DeleteWhere(tbl, day), df), raised |-> FALSE]
  ELSE IF fault = "append"
       THEN [tbl |-> tbl, raised |-> TRUE]
       ELSE [tbl |-> WriteAppend(tbl, df), raised |-> FALSE]

\* The whole write step.  match: the exception text contains "No file" or
\* "Not a Delta table"; fbFails: the write of the except branch raises.
IdempotentWrite(tbl, df, day, fault, match, fbFails) ==
  LET try == TryWrite(tbl, df, day, fault)
  IN IF ~try.raised THEN [tbl |-> try.tbl, outcome |-> "saved"]
     ELSE IF match \/ try.tbl.state = "absent"
     THEN IF fbFails THEN [tbl |-> try.tbl, outcome |-> "raised"]
          ELSE [tbl |-> WriteAppend(try.tbl, df), outcome |-> "created"]
     ELSE [tbl |-> try.tbl, outcome |-> "failed"]

(* ---------------------------- get_games_incremental -------------------- *)
\* Faulty variant of the write step: no early return on an empty result.
WriteStepUnguarded(tbl, all_games, df, day, fault, match, fbFails) ==
  IdempotentWrite(tbl, df, day, fault, match, fbFails)

\* Lines 111 to 191: nothing is written when no record was accumulated.
WriteStep(tbl, all_games, df, day, fault, match, fbFails) ==
  IF all_games = <<>>
  THEN [tbl |-> tbl, outcome |-> "empty"]
  ELSE IdempotentWrite(tbl, df, day, fault, match, fbFails)

\* What the run writes to the log: logger.error of a failed page fetch,
\* logger.info of the page cap and of the last page, logger.warning of the
\* empty result, and the message of the write step.
RunLog(stop, outcome) ==
  (IF stop = "error" THEN {"error: page fetch"} ELSE {})
  \cup (IF stop = "cap" THEN {"info: page cap"} ELSE {})
  \cup (IF stop = "nomore" THEN {"info: no more pages"} ELSE {})
  \cup (IF outcome = "empty" THEN {"warning: no games"} ELSE {})
  \cup (IF outcome = "saved" THEN {"info: saved"} ELSE {})
  \cup (IF outcome = "created" THEN {"info: created"} ELSE {})
  \cup (IF outcome = "failed" THEN {"error: write"} ELSE {})

NoRun == [day |-> 0, ts |-> 0, maxPages |-> NoCap, fetched |-> <<>>,
          stop |-> "none", batch |-> <<>>, fault |-> "none",
          outcome |-> "none", log |-> {}]

IngestWith(resp, maxPages, fault, match, fbFails) ==
  LET pg == Paginate(resp, maxPages)
      ts == runs + 1
      df == BuildFrame(pg.all_games, ts, today)
      wr == WriteStep(store[games_path], pg.all_games, df, today,
                      fault, match, fbFails)
  IN /\ store' = [store EXCEPT ![games_path] = wr.tbl]
     /\ runs' = runs + 1
     /\ lastOp' = "ingest"
     /\ preI' = store[games_path]
     /\ lastI' = [day |-> today, ts |-> ts, maxPages |-> maxPages,
                  fetched |-> pg.fetched, stop |-> pg.stop,
                  batch |-> IF pg.all_games = <<>> THEN <<>> ELSE df,
                  fault |-> fault, outcome |-> wr.outcome,
                  log |-> RunLog(pg.stop, wr.outcome)]
     /\ prevI' = [same |-> /\ lastI.day = today
                           /\ lastI.maxPages = maxPages
                           /\ lastI.fetched = pg.fetched
                           /\ lastI.outcome # "none",
                  outcome |-> lastI.outcome]
     /\ UNCHANGED <<today, sortKind, truns, preT, lastT, gruns, lastG, loop>>

\* The answers the loop does not consume are irrelevant: they are fixed to
\* FetchFail, an empty page carries no next link, and a run without storage
\* fault has no exception text.
Consumed(resp, maxPages) == Len(Paginate(resp, maxPages).fetched)

Feeds ==
  {in \in [resp : [1 .. MaxPage -> Responses], maxPages : MaxPagesArgs] :
     /\ Finite(in.resp, in.maxPages, 1)
     /\ \A p \in 1 .. MaxPage :
          /\ p > Consumed(in.resp, in.maxPages) => in.resp[p] = FetchFail
          /\ in.resp[p].results = <<>> => ~in.resp[p].next}

StorageRuns ==
  {sr \in [fault : Faults, match : BOOLEAN, fbFails : BOOLEAN] :
     /\ sr.fault = "none" => ~sr.match
     /\ ~sr.match => ~sr.fbFails}

\* A call can only raise where it is made: no storage call without a batch,
\* no open or delete without a directory, and no open of a directory that
\* holds no table succeeds.
Possible(tbl, in, sr) ==
  /\ Paginate(in.resp, in.maxPages).all_games = <<>> => sr.fault = "none"
  /\ tbl.state = "absent" => sr.fault \in {"none", "append"}
  /\ tbl.state = "nondelta" /\ Paginate(in.resp, in.maxPages).all_games # <<>>
       => sr.fault = "open"

Ingest ==
  /\ runs < MaxRuns
  /\ \E in \in Feeds, sr \in StorageRuns :
       /\ Possible(store[games_path], in, sr)
       /\ IngestWith(in.resp, in.maxPages, sr.fault, sr.match, sr.fbFails)

\* Runs whose pages all arrive, with the storage faults that shape the
\* table the transformer reads.
RowFeeds ==
  {in \in Feeds :
     /\ in.maxPages = NoCap
     /\ \A p \in 1 .. Consumed(in.resp, in.maxPages) :
          in.resp[p].kind = "page" /\ in.resp[p].results # <<>>}

RowStorageRuns ==
  {sr \in StorageRuns : /\ ~sr.fbFails
                         /\ (sr.fault = "append" => ~sr.match)
                         /\ (sr.fault \in {"open", "delete"} => sr.match)}

IngestRows ==
  /\ runs < MaxRuns
  /\ \E in \in RowFeeds, sr \in RowStorageRuns :
       /\ Possible(store[games_path], in, sr)
       /\ IngestWith(in.resp, in.maxPages, sr.fault, sr.match, sr.fbFails)

\* Records that show every shape of the fields the transformer derives
\* from: scores around the threshold, two release years, a release date that
\* does not parse, genre lists of one and two names, an empty list, a
\* missing list and a genres value that is plain text.  As in the API,
\* every record carries an id and a rating.
RichCatalogue ==
  { [id |-> Num(1), rating |-> Num(4), metacritic |-> Num(90),
     released |-> Date(2020), genres |-> List(<<"Action", "RPG">>)],
    [id |-> Num(2), rating |-> Num(5), metacritic |-> Num(85),
     released |-> Date(2020), genres |-> List(<<"Action">>)],
    [id |-> Num(3), rating |-> Num(3), metacritic |-> Num(86),
     released |-> Date(2020), genres |-> List(<<"RPG">>)],
    [id |-> Num(4), rating |-> Num(3), metacritic |-> Null,
     released |-> Date(2019), genres |-> List(<<"RPG", "Action">>)],
    [id |-> Num(5), rating |-> Num(4), metacritic |-> Null,
     released |-> Null, genres |-> Null],
    [id |-> Num(6), rating |-> Num(5), metacritic |-> Num(86),
     released |-> Date(2019), genres |-> List(<<>>)],
    [id |-> Num(1), rating |-> Num(5), metacritic |-> Num(85),
     released |-> Date(2020), genres |-> List(<<"RPG">>)],
    [id |-> Num(2), rating |-> Num(2), metacritic |-> Num(90),
     released |-> Txt(<<"tba">>), genres |-> Txt(<<"Action">>)],
    [id |-> Num(6), rating |-> Num(4), metacritic |-> Num(86),
     released |-> Date(2020), genres |-> List(<<"Action">>)] }

RichBatches ==
  UNION {[1 .. n -> RichCatalogue] : n \in 1 .. MaxBatch}

\* A run whose one page carries the batch, without storage fault.
OnePage(batch) ==
  [p \in 1 .. MaxPage |-> IF p = 1 THEN Page(batch, FALSE) ELSE FetchFail]

IngestRich ==
  /\ runs < MaxRichRuns
  /\ \E batch \in RichBatches :
       IngestWith(OnePage(batch), NoCap, "none", FALSE, FALSE)

\* The calendar day of datetime.now() moves on between runs.
NextDay ==
  /\ today < MaxDay
  /\ today' = today + 1
  /\ UNCHANGED <<store, sortKind, runs, truns, lastOp,
                 preI, lastI, prevI, preT, lastT, gruns, lastG, loop>>

(* ---------------------------- get_genres_full -------------------------- *)
\* Genre records the upstream API can return: id, name and the list of the
\* genre's games (mappings with a name), which can be missing.
GenreCatalogue ==
  { [id |-> Num(4), name |-> Txt(<<"Action">>), games |-> List(<<"GTA">>)],
    [id |-> Num(5), name |-> Txt(<<"RPG">>), games |-> List(<<"Witcher", "Skyrim">>)],
    [id |-> Num(4), name |-> Txt(<<"Action">>), games |-> Null] }

GenreResults ==
  UNION {[1 .. n -> GenreCatalogue] : n \in 0 .. MaxGenres}

\* The one page asked for ("next" is not read).
GenreResponses ==
  {FetchFail, FetchInvalid} \cup {Page(rs, FALSE) : rs \in GenreResults}

\* json.dumps of one cell.
json_dumps(x) ==
  IF x.t = "list" THEN Txt(JsonDumps(x.s))
  ELSE IF x.t = "null" THEN Txt(<<"null">>)
  ELSE IF x.t = "num" THEN Txt(<<ToString(x.n)>>)
  ELSE Txt(<<"quote">> \o x.s \o <<"quote">>)

\* Lines 47 to 49: a column that holds a list or a mapping is dumped whole.
GenresCell(results, col, x) ==
  IF \E i \in 1 .. Len(results) : results[i][col].t = "list"
  THEN json_dumps(x) ELSE x

GenresFrame(results) ==
  [i \in 1 .. Len(results) |->
     [id |-> GenresCell(results, "id", results[i].id),
      name |-> GenresCell(results, "name", results[i].name),
      games |-> GenresCell(results, "games", results[i].games)]]

\* Faulty variant of the full load: the write appends to the table.
GenresFullResultAppends(tbl, response, wFails) ==
  IF response.kind = "fail" THEN [tbl |-> tbl, outcome |-> "fetch_failed"]
  ELSE IF response.kind = "invalid" THEN [tbl |-> tbl, outcome |-> "invalid"]
  ELSE IF wFails THEN [tbl |-> tbl, outcome |-> "write_failed"]
  ELSE [tbl |-> WriteAppend(tbl, GenresFrame(response.results)),
        outcome |-> "saved"]

\* get_genres_full(): the table it leaves and where it ended.  wFails: the
\* write raises (the exception is caught and logged).
GenresFullResult(tbl, response, wFails) ==
  IF response.kind = "fail" THEN [tbl |-> tbl, outcome |-> "fetch_failed"]
  ELSE IF response.kind = "invalid" THEN [tbl |-> tbl, outcome |-> "invalid"]
  ELSE IF wFails THEN [tbl |-> tbl, outcome |-> "write_failed"]
  ELSE [tbl |-> WriteOverwrite(tbl, GenresFrame(response.results)),
        outcome |-> "saved"]

NoGRun == [outcome |-> "none", response |-> FetchFail, pre |-> NoTable,
           again |-> FALSE]

GenresFullWith(response, wFails) ==
  LET res == GenresFullResult(store[genres_path], response, wFails)
  IN /\ store' = [store EXCEPT ![genres_path] = res.tbl]
     /\ gruns' = gruns + 1
     /\ lastOp' = "genres"
     /\ lastG' = [outcome |-> res.outcome, response |-> response,
                  pre |-> store[genres_path],
                  again |-> lastG.outcome = "saved" /\ lastG.response = response]
     /\ UNCHANGED <<today, sortKind, runs, truns, preI, lastI, prevI,
                    preT, lastT, loop>>

\* No write is made, so none can raise, unless a page came back.
GenresFull ==
  /\ gruns < MaxGRuns
  /\ \E response \in GenreResponses, wFails \in BOOLEAN :
       /\ response.kind # "page" => ~wFails
       /\ GenresFullWith(response, wFails)

(* ---------------------------- GameTransformer -------------------------- *)
\* json.loads of a token text: the names of a list of {"name": x} mappings,
\* or an error for any other text.
RECURSIVE LoadItems(_, _, _)
LoadItems(toks, i, names) ==
  IF i + 4 <= Len(toks) /\ toks[i] = "{" /\ toks[i + 1] = "name"
     /\ toks[i + 2] = ":" /\ toks[i + 4] = "}"
  THEN IF i + 5 = Len(toks) /\ toks[i + 5] = "]"
       THEN [ok |-> TRUE, names |-> Append(names, toks[i + 3])]
       ELSE IF i + 5 < Len(toks) /\ toks[i + 5] = ","
       THEN LoadItems(toks, i + 6, Append(names, toks[i + 3]))
       ELSE [ok |-> FALSE, names |-> <<>>]
  ELSE [ok |-> FALSE, names |-> <<>>]

JsonLoads(toks) ==
  IF toks = <<"[", "]">> THEN [ok |-> TRUE, names |-> <<>>]
  ELSE IF Len(toks) > 2 /\ toks[1] = "[" THEN LoadItems(toks, 2, <<>>)
  ELSE [ok |-> FALSE, names |-> <<>>]

extract_genre_names(genre_json_str) ==
  IF genre_json_str.t # "str" \/ genre_json_str.s = <<>> THEN <<>>
  ELSE LET genres == JsonLoads(genre_json_str.s)
       IN IF genres.ok THEN genres.names ELSE <<>>

\* pd.to_datetime(errors='coerce'): a date string parses, anything else is NaT.
ToDatetime(x) == IF x.t = "date" THEN x ELSE Null

\* pd.to_numeric(errors='coerce'): the strings of the model are not numeric.
ToNumeric(x) == IF x.t = "num" THEN x ELSE Null

Reverse(seq) == [i \in 1 .. Len(seq) |-> seq[Len(seq) + 1 - i]]

\* df.sort_values(by='extraction_date'): the default sort is not stable, so
\* rows of one date come out in the order read or, in a build whose sort
\* moves equal keys, in another order (here: reversed).
RECURSIVE SortFrom(_, _, _)
SortFrom(rows, day, stable) ==
  IF day > MaxDay THEN <<>>
  ELSE LET same == SelectSeq(rows, LAMBDA r : r.extraction_date = day)
       IN (IF stable THEN same ELSE Reverse(same))
          \o SortFrom(rows, day + 1, stable)

SortByDate(rows, stable) == SortFrom(rows, 1, stable)

\* df.drop_duplicates(subset=['id', 'extraction_date'], keep='last')
RECURSIVE DropFrom(_, _)
DropFrom(rows, i) ==
  IF i > Len(rows) THEN <<>>
  ELSE (IF \E j \in (i + 1) .. Len(rows) :
              /\ rows[j].id = rows[i].id
              /\ rows[j].extraction_date = rows[i].extraction_date
        THEN <<>> ELSE <<rows[i]>>)
       \o DropFrom(rows, i + 1)

DropDuplicates(rows) == DropFrom(rows, 1)

\* Faulty variant of the derivation: the threshold is inclusive.
DeriveInclusive(rows, stable) ==
  LET df == DropDuplicates(SortByDate(rows, stable))
  IN [i \in 1 .. Len(df) |->
        LET released == ToDatetime(df[i].released)
            metacritic == ToNumeric(df[i].metacritic)
            genre_list == extract_genre_names(df[i].genres)
        IN [id |-> df[i].id,
            released |-> released,
            released_year |-> IF released.t = "date" THEN Num(released.n) ELSE Null,
            rating |-> df[i].rating,
            metacritic |-> metacritic,
            is_top_rated |-> metacritic.t = "num" /\ metacritic.n >= 85,
            genre_list |-> genre_list,
            primary_genre |-> IF genre_list # <<>> THEN genre_list[1] ELSE "Unknown",
            extraction_date |-> df[i].extraction_date]]

\* Steps 2 to 4: the frame with its typed and derived columns.
Derive(rows, stable) ==
  LET df == DropDuplicates(SortByDate(rows, stable))
  IN [i \in 1 .. Len(df) |->
        LET released == ToDatetime(df[i].released)
            metacritic == ToNumeric(df[i].metacritic)
            genre_list == extract_genre_names(df[i].genres)
        IN [id |-> df[i].id,
            released |-> released,
            released_year |-> IF released.t = "date" THEN Num(released.n) ELSE Null,
            rating |-> df[i].rating,
            metacritic |-> metacritic,
            is_top_rated |-> metacritic.t = "num" /\ metacritic.n > 85,
            genre_list |-> genre_list,
            primary_genre |-> IF genre_list # <<>> THEN genre_list[1] ELSE "Unknown",
            extraction_date |-> df[i].extraction_date]]

\* Step 5: df[available_cols]
Refined(df) ==
  [i \in 1 .. Len(df) |->
     [id |-> df[i].id, released |-> df[i].released,
      released_year |-> df[i].released_year, rating |-> df[i].rating,
      metacritic |-> df[i].metacritic, is_top_rated |-> df[i].is_top_rated,
      primary_genre |-> df[i].primary_genre,
      extraction_date |-> df[i].extraction_date]]

\* Faulty variant of the explode: a row counts for its first genre only.
RECURSIVE ExplodeFirstOnly(_, _)
ExplodeFirstOnly(df, i) ==
  IF i > Len(df) THEN <<>>
  ELSE (IF df[i].released_year.t = "null" \/ df[i].genre_list = <<>> THEN <<>>
        ELSE <<[released_year |-> df[i].released_year.n,
                genre |-> df[i].genre_list[1],
                rating |-> df[i].rating, id |-> df[i].id]>>)
       \o ExplodeFirstOnly(df, i + 1)

\* Step 6: df.explode('genre_list') and dropna(subset=['released_year','genre'])
RECURSIVE ExplodeFrom(_, _)
ExplodeFrom(df, i) ==
  IF i > Len(df) THEN <<>>
  ELSE (IF df[i].released_year.t = "null" THEN <<>>
        ELSE [k \in 1 .. Len(df[i].genre_list) |->
                [released_year |-> df[i].released_year.n,
                 genre |-> df[i].genre_list[k],
                 rating |-> df[i].rating, id |-> df[i].id]])
       \o ExplodeFrom(df, i + 1)

Exploded(df) == ExplodeFrom(df, 1)

RECURSIVE SumRating(_, _, _, _)
SumRating(ex, year, genre, i) ==
  IF i > Len(ex) THEN 0
  ELSE (IF ex[i].released_year = year /\ ex[i].genre = genre
           /\ ex[i].rating.t = "num"
        THEN ex[i].rating.n ELSE 0)
       + SumRating(ex, year, genre, i + 1)

CountWhere(ex, year, genre, rated) ==
  Cardinality({i \in 1 .. Len(ex) :
                 /\ ex[i].released_year = year /\ ex[i].genre = genre
                 /\ (rated => ex[i].rating.t = "num")})

\* Alphabetical order of the genre names of the catalogue.
GenreOrder == <<"Action", "RPG">>

GenreRank(genre) == CHOOSE k \in 1 .. Len(GenreOrder) : GenreOrder[k] = genre

\* groupby(['released_year','genre']).agg(mean, count): avg_rating is kept
\* as the fraction sum/rated of the ratings that are numbers.
GroupOf(ex, year, genre) ==
  [released_year |-> year, genre |-> genre,
   avg_rating |-> [sum |-> SumRating(ex, year, genre, 1),
                   rated |-> CountWhere(ex, year, genre, TRUE)],
   game_count |-> CountWhere(ex, year, genre, FALSE)]

Groups(ex) ==
  {GroupOf(ex, ex[i].released_year, ex[i].genre) : i \in 1 .. Len(ex)}

\* sort_values(by=['released_year','game_count'], ascending=[False, False])
\* over the groups in key order (the multi-key sort is stable).
Before(a, b) ==
  \/ a.released_year > b.released_year
  \/ /\ a.released_year = b.released_year
     /\ \/ a.game_count > b.game_count
        \/ /\ a.game_count = b.game_count
           /\ GenreRank(a.genre) < GenreRank(b.genre)

RECURSIVE Ordered(_)
Ordered(S) ==
  IF S = {} THEN <<>>
  ELSE LET first == CHOOSE a \in S : \A b \in S \ {a} : Before(a, b)
       IN <<first>> \o Ordered(S \ {first})

Analytics(df) == Ordered(Groups(Exploded(df)))

NoTRun == [outcome |-> "none", read |-> <<>>, refinedOk |-> FALSE,
           analyticsOk |-> FALSE, again |-> FALSE]

\* Faulty variant of process(): no return on an empty frame.
ProcessResultNoEmptyCheck(st, readFails, wrFails, waFails, stable) ==
  LET bronze == st[games_path]
      df == Derive(bronze.rows, stable)
  IN IF bronze.state # "table" \/ readFails
     THEN [store |-> st, outcome |-> "read_failed"]
     ELSE [store |->
             [st EXCEPT
                ![refined_path] =
                    IF wrFails THEN @ ELSE WriteOverwrite(@, Refined(df)),
                ![analytics_path] =
                    IF waFails THEN @ ELSE WriteOverwrite(@, Analytics(df))],
           outcome |-> "done"]

\* Faulty variant of process(): it returns when the refined write fails.
ProcessResultStopsAtRefined(st, readFails, wrFails, waFails, stable) ==
  LET bronze == st[games_path]
      df == Derive(bronze.rows, stable)
  IN IF bronze.state # "table" \/ readFails
     THEN [store |-> st, outcome |-> "read_failed"]
     ELSE IF bronze.rows = <<>>
     THEN [store |-> st, outcome |-> "empty"]
     ELSE IF wrFails
     THEN [store |-> st, outcome |-> "done"]
     ELSE [store |->
             [st EXCEPT
                ![refined_path] = WriteOverwrite(@, Refined(df)),
                ![analytics_path] =
                    IF waFails THEN @ ELSE WriteOverwrite(@, Analytics(df))],
           outcome |-> "done"]

\* process(): readFails, wrFails, waFails say which storage call raises;
\* stable says how the sort of this build orders equal keys.  Gives the
\* store it leaves and where it ended.
ProcessResult(st, readFails, wrFails, waFails, stable) ==
  LET bronze == st[games_path]
      df == Derive(bronze.rows, stable)
  IN IF bronze.state # "table" \/ readFails
     THEN [store |-> st, outcome |-> "read_failed"]
     ELSE IF bronze.rows = <<>>
     THEN [store |-> st, outcome |-> "empty"]
     ELSE [store |->
             [st EXCEPT
                ![refined_path] =
                    IF wrFails THEN @ ELSE WriteOverwrite(@, Refined(df)),
                ![analytics_path] =
                    IF waFails THEN @ ELSE WriteOverwrite(@, Analytics(df))],
           outcome |-> "done"]

\* What a run of process() writes to the log, from the record of the run.
ProcessLog(t) ==
  (IF t.outcome = "read_failed" THEN {"error: load bronze"} ELSE {})
  \cup (IF t.outcome = "empty" THEN {"warning: bronze empty"} ELSE {})
  \cup (IF t.outcome = "done" /\ t.refinedOk THEN {"info: saved refined"} ELSE {})
  \cup (IF t.outcome = "done" /\ ~t.refinedOk THEN {"error: write refined"} ELSE {})
  \cup (IF t.outcome = "done" /\ t.analyticsOk THEN {"info: saved analytics"} ELSE {})
  \cup (IF t.outcome = "done" /\ ~t.analyticsOk THEN {"error: write analytics"} ELSE {})

ProcessWith(readFails, wrFails, waFails, stable) ==
  LET res == ProcessResult(store, readFails, wrFails, waFails, stable)
      done == res.outcome = "done"
  IN /\ truns' = truns + 1
     /\ lastOp' = "process"
     /\ preT' = store
     /\ store' = res.store
     /\ sortKind' = IF ~done THEN sortKind
                    ELSE IF stable THEN "stable" ELSE "unstable"
     /\ lastT' = [outcome |-> res.outcome,
                  read |-> IF done THEN store[games_path].rows ELSE <<>>,
                  refinedOk |-> done /\ ~wrFails,
                  analyticsOk |-> done /\ ~waFails,
                  again |-> /\ lastT.refinedOk /\ lastT.analyticsOk
                            /\ lastT.read = store[games_path].rows]
     /\ UNCHANGED <<today, runs, preI, lastI, prevI, gruns, lastG, loop>>

\* The sort algorithm is the same in every call of one installation.
Process ==
  /\ truns < MaxTRuns
  /\ \E readFails \in BOOLEAN, wrFails \in BOOLEAN, waFails \in BOOLEAN,
        stable \in BOOLEAN :
       /\ sortKind = "stable" => stable
       /\ sortKind = "unstable" => ~stable
       /\ ProcessWith(readFails, wrFails, waFails, stable)

(* ---------------------------- specification ---------------------------- *)
Init ==
  /\ store \in {[p \in Paths |-> IF p = games_path THEN g ELSE NoTable] :
                  g \in {NoTable, [state |-> "nondelta", rows |-> <<>>]}}
  /\ today = 1
  /\ sortKind = "unset"
  /\ runs = 0
  /\ truns = 0
  /\ lastOp = "none"
  /\ preI = NoTable
  /\ lastI = NoRun
  /\ prevI = [same |-> FALSE, outcome |-> "none"]
  /\ preT = store
  /\ lastT = NoTRun
  /\ gruns = 0
  /\ lastG = NoGRun
  /\ loop = NoLoop

\* Ingestion runs, under every fetcher answer and storage fault.
Next == Ingest \/ NextDay

Spec == Init /\ [][Next]_vars

\* Ingestion runs that leave rows, and transformer runs over them.
TNext == IngestRows \/ NextDay \/ Process

TSpec == Init /\ [][TNext]_vars

\* One ingestion of a batch of any shape, and transformer runs over it.
RNext == IngestRich \/ Process

RSpec == Init /\ [][RNext]_vars

\* Full loads of the genres table.
GNext == GenresFull

GSpec == Init /\ [][GNext]_vars

\* The pagination loop of a call, iteration by iteration.
PNext == StartLoop \/ RequestPage \/ ReceivePage

PSpec == Init /\ [][PNext]_vars

\* The call is single-threaded and get_resource returns or raises within
\* its timeout and retries, so a step of the loop that can be taken is taken.
PLive == PSpec /\ WF_vars(RequestPage) /\ WF_vars(ReceivePage)

(* ---------------------------- properties ------------------------------- *)
bronze == store[games_path]

Part(tbl, day) == SelectSeq(tbl.rows, LAMBDA r : r.extraction_date = day)

Others(tbl, day) == SelectSeq(tbl.rows, LAMBDA r : r.extraction_date # day)

\* Rows without their extraction_ts.
Strip(rows) == [i \in 1 .. Len(rows) |-> [rows[i] EXCEPT !.extraction_ts = 0]]

Clean(outcome) == outcome \in {"saved", "empty"}

\* The records of the first n answers, in page order.
RECURSIVE PagesUpTo(_, _)
PagesUpTo(fetched, n) ==
  IF n = 0 THEN <<>> ELSE PagesUpTo(fetched, n - 1) \o fetched[n].results

\* C1: when a run repeats the previous run (same day, same page cap, same
\* fetcher answers) and neither run met a storage fault, the partition of
\* that day holds after the second run what it held after the first, apart
\* from extraction_ts, and that is the batch once: no record twice.
C1_Idempotent ==
  (lastOp = "ingest" /\ prevI.same /\ Clean(prevI.outcome) /\ Clean(lastI.outcome)) =>
     /\ Strip(Part(bronze, lastI.day)) = Strip(Part(preI, lastI.day))
     /\ lastI.outcome = "saved" => Part(bronze, lastI.day) = lastI.batch

C1_Witness ==
  /\ lastOp = "ingest"
  /\ prevI.same /\ prevI.outcome = "saved" /\ lastI.outcome = "saved"
  /\ Len(lastI.batch) = 2
  /\ Len(Part(preI, lastI.day)) = 2

\* C2: whatever the outcome of a run on day D (saved, created by the
\* fallback, failed, raised or empty), the rows of every other
\* extraction_date are the same rows in the same order as before the run.
C2_PartitionIsolation ==
  lastOp = "ingest" => Others(bronze, lastI.day) = Others(preI, lastI.day)

C2_Witness ==
  /\ lastOp = "ingest"
  /\ lastI.outcome = "saved"
  /\ Others(preI, lastI.day) # <<>>
  /\ Part(bronze, lastI.day) # <<>>

\* C3: when the write step fails for a reason other than a missing table
\* (the failure is logged), the rows of the batch's extraction_date are the
\* rows that were there before the run.
C3_FailedWriteKeepsPartition ==
  (lastOp = "ingest" /\ lastI.outcome = "failed") =>
     /\ "error: write" \in lastI.log
     /\ Part(bronze, lastI.day) = Part(preI, lastI.day)

\* C4: two bronze rows with the same id and extraction_date were written by
\* the same run (they carry the same extraction_ts).
C4_OneRunPerPair ==
  \A i, j \in 1 .. Len(bronze.rows) :
     (/\ bronze.rows[i].id = bronze.rows[j].id
      /\ bronze.rows[i].extraction_date = bronze.rows[j].extraction_date)
     => bronze.rows[i].extraction_ts = bronze.rows[j].extraction_ts

\* C5: when the fetch of page k >= 2 fails, it is the last fetch of the run,
\* pages 1..k-1 each gave records, and the batch is the records of pages
\* 1..k-1 in page order; a run that writes leaves that batch as the day's
\* last rows.
C5_PartialResultsKept ==
  (lastOp = "ingest" /\ lastI.stop = "error" /\ Len(lastI.fetched) >= 2) =>
     LET k == Len(lastI.fetched)
         kept == PagesUpTo(lastI.fetched, k - 1)
     IN /\ lastI.fetched[k].kind = "fail"
        /\ \A p \in 1 .. (k - 1) :
             lastI.fetched[p].kind = "page" /\ lastI.fetched[p].results # <<>>
        /\ Len(kept) = Len(lastI.batch)
        /\ \A i \in 1 .. Len(kept) : lastI.batch[i].id = kept[i].id
        /\ lastI.batch = BuildFrame(kept, lastI.ts, lastI.day)
        /\ lastI.outcome \in {"saved", "created"} =>
             SubSeq(bronze.rows, Len(bronze.rows) - Len(kept) + 1,
                    Len(bronze.rows)) = lastI.batch

C5_Witness ==
  /\ lastOp = "ingest"
  /\ lastI.stop = "error" /\ Len(lastI.fetched) = 2
  /\ lastI.outcome = "saved"
  /\ Len(lastI.batch) = 1
  /\ Part(bronze, lastI.day) = lastI.batch

\* C6: a run that accumulates no record returns normally, leaves the bronze
\* table as it was and logs the empty-result warning; the error of a page
\* fetch is in the log exactly when the fetch failed, so an empty range and
\* a fetch failure are told apart.
C6_EmptyRange ==
  (lastOp = "ingest" /\ lastI.batch = <<>>) =>
     /\ lastI.outcome = "empty"
     /\ bronze = preI
     /\ "warning: no games" \in lastI.log
     /\ ("error: page fetch" \in lastI.log) <=> (lastI.stop = "error")
     /\ lastI.stop \in {"emptypage", "invalid"} =>
          "error: page fetch" \notin lastI.log

C6_Witness ==
  /\ lastOp = "ingest"
  /\ lastI.outcome = "empty"
  /\ lastI.stop = "emptypage"
  /\ Part(preI, lastI.day) # <<>>
  /\ bronze = preI

refined == store[refined_path]

analytics == store[analytics_path]

SamePair(r, q) == r.id = q.id /\ r.extraction_date = q.extraction_date

\* The refined row of one bronze row.
RefinedOf(r) == Refined(Derive(<<r>>, TRUE))[1]

\* C7: after DEDUPLICATE every (id, extraction_date) pair of the bronze rows
\* has exactly one row in games_refined, and it is the row of the most
\* recently appended bronze row of the pair.
C7_DedupKeepsLatest ==
  (lastOp = "process" /\ lastT.outcome = "done" /\ lastT.refinedOk) =>
     \A i \in 1 .. Len(bronze.rows) :
        (\A j \in (i + 1) .. Len(bronze.rows) :
            ~SamePair(bronze.rows[j], bronze.rows[i]))
        => /\ Cardinality({k \in 1 .. Len(refined.rows) :
                              SamePair(refined.rows[k], bronze.rows[i])}) = 1
           /\ \E k \in 1 .. Len(refined.rows) :
                 refined.rows[k] = RefinedOf(bronze.rows[i])

\* C8: the transformer stops at READ when the bronze table is absent or
\* unreadable and after READ when it has no rows; it returns normally and
\* games_refined and games_analytics are as they were.
C8_TransformerAborts ==
  lastOp = "process" =>
     /\ preT[games_path].state # "table" => lastT.outcome = "read_failed"
     /\ (preT[games_path].state = "table" /\ preT[games_path].rows = <<>>)
          => lastT.outcome \in {"read_failed", "empty"}
     /\ lastT.outcome \in {"read_failed", "empty"} =>
          /\ store[refined_path] = preT[refined_path]
          /\ store[analytics_path] = preT[analytics_path]

C8_Witness ==
  /\ lastOp = "process"
  /\ lastT.outcome = "empty"
  /\ preT[refined_path].rows # <<>>
  /\ refined = preT[refined_path]

\* C9: a transformer run, wherever it ends, leaves the bronze games table
\* as it found it.
C9_BronzeUntouched ==
  lastOp = "process" => store[games_path] = preT[games_path]

C9_Witness ==
  /\ lastOp = "process"
  /\ lastT.outcome = "done" /\ lastT.refinedOk /\ lastT.analyticsOk
  /\ Len(bronze.rows) >= 2
  /\ refined.rows # <<>>

BronzePairs == {<<bronze.rows[i].id, bronze.rows[i].extraction_date>> :
                  i \in 1 .. Len(bronze.rows)}

\* C10: after a run that completes, games_refined and games_analytics hold
\* the rows derived from the bronze table of that run and nothing else: one
\* refined row per bronze (id, extraction_date) pair, every analytics row
\* for a year and genre of a bronze row; a second run over the same bronze
\* rows leaves both tables as they were.
C10_SilverFromBronze ==
  (lastOp = "process" /\ lastT.outcome = "done" /\ lastT.refinedOk /\ lastT.analyticsOk) =>
     LET df == Derive(bronze.rows, sortKind = "stable")
     IN /\ refined.rows = Refined(df)
        /\ analytics.rows = Analytics(df)
        /\ Len(refined.rows) = Cardinality(BronzePairs)
        /\ \A k \in 1 .. Len(refined.rows) :
             <<refined.rows[k].id, refined.rows[k].extraction_date>> \in BronzePairs
        /\ \A k \in 1 .. Len(analytics.rows) :
             \E i \in 1 .. Len(bronze.rows) :
                /\ bronze.rows[i].released = Date(analytics.rows[k].released_year)
                /\ \E g \in 1 .. Len(extract_genre_names(bronze.rows[i].genres)) :
                     extract_genre_names(bronze.rows[i].genres)[g]
                       = analytics.rows[k].genre
        /\ lastT.again => /\ refined = preT[refined_path]
                          /\ analytics = preT[analytics_path]

C10_Witness ==
  /\ lastOp = "process"
  /\ lastT.outcome = "done" /\ lastT.refinedOk /\ lastT.analyticsOk
  /\ preT[refined_path].rows # <<>>
  /\ preT[refined_path].rows # refined.rows
  /\ preT[analytics_path].rows # analytics.rows
  /\ analytics.rows # <<>>

genres == store[genres_path]

\* C11: a full load that succeeds leaves in the genres table the fetched
\* records, one row each in the order fetched, and no other row; a second
\* load of the same response leaves the table as the first left it; a load
\* whose fetch fails or whose response has no results leaves the table as
\* it was.
C11_FullLoadReplaces ==
  lastOp = "genres" =>
     /\ lastG.outcome = "saved" =>
          /\ Len(genres.rows) = Len(lastG.response.results)
          /\ \A i \in 1 .. Len(genres.rows) :
               /\ genres.rows[i].id = lastG.response.results[i].id
               /\ genres.rows[i].name = lastG.response.results[i].name
               /\ lastG.response.results[i].games.t = "list" =>
                    genres.rows[i].games
                      = Txt(JsonDumps(lastG.response.results[i].games.s))
     /\ (lastG.outcome = "saved" /\ lastG.again) => genres = lastG.pre
     /\ lastG.outcome \in {"fetch_failed", "invalid"} => genres = lastG.pre

C11_Witness ==
  /\ lastOp = "genres"
  /\ lastG.outcome = "saved"
  /\ Len(lastG.pre.rows) = 2
  /\ Len(genres.rows) = 1
  /\ genres.rows[1].id # lastG.pre.rows[1].id
  /\ genres.rows[1].id # lastG.pre.rows[2].id

\* The raw records of the last ingestion run, in the order accumulated.
rawOf(run) == PagesUpTo(run.fetched, Len(run.fetched))

\* The transformer ran to its end over the rows of the last ingestion run.
Transformed ==
  /\ lastOp = "process" /\ lastT.outcome = "done"
  /\ lastI.outcome \in {"saved", "created"}
  /\ bronze.rows = lastI.batch

IsNameList(x) == x.t = "list" /\ x.s # <<>>

\* The primary genre a raw record stands for.
PrimaryOf(g) == IF IsNameList(g.genres) THEN g.genres.s[1] ELSE "Unknown"

\* C12: a raw record whose genres is a non-empty list of named mappings has
\* in bronze the JSON text of that list, and the transformer's parse of the
\* text gives the names back in order; in games_refined the row of an id
\* carries the first name of the list of a record of that id, or "Unknown"
\* when that record's genres is empty, missing or not a JSON list.
C12_GenresRoundTrip ==
  /\ lastI.outcome \in {"saved", "created"} =>
       \A i \in 1 .. Len(lastI.batch) :
          LET g == rawOf(lastI)[i].genres
          IN IsNameList(g) =>
               /\ lastI.batch[i].genres = Txt(JsonDumps(g.s))
               /\ extract_genre_names(lastI.batch[i].genres) = g.s
  /\ (Transformed /\ lastT.refinedOk) =>
       /\ \A k \in 1 .. Len(refined.rows) :
            \E i \in 1 .. Len(lastI.batch) :
               /\ rawOf(lastI)[i].id = refined.rows[k].id
               /\ refined.rows[k].primary_genre = PrimaryOf(rawOf(lastI)[i])
       /\ \A i \in 1 .. Len(lastI.batch) :
            (\A j \in 1 .. Len(lastI.batch) :
                j # i => rawOf(lastI)[j].id # rawOf(lastI)[i].id)
            => \E k \in 1 .. Len(refined.rows) :
                  /\ refined.rows[k].id = rawOf(lastI)[i].id
                  /\ refined.rows[k].primary_genre = PrimaryOf(rawOf(lastI)[i])

C12_Witness ==
  /\ Transformed /\ lastT.refinedOk
  /\ Len(lastI.batch) = 3
  /\ rawOf(lastI)[1].genres = List(<<"Action", "RPG">>)
  /\ lastI.batch[1].genres
       = Txt(<<"[", "{", "name", ":", "Action", "}", ",",
               "{", "name", ":", "RPG", "}", "]">>)
  /\ rawOf(lastI)[2].genres = List(<<>>)
  /\ rawOf(lastI)[3].genres = Null
  /\ \E k \in 1 .. 3 : /\ refined.rows[k].id = Num(1)
                         /\ refined.rows[k].primary_genre = "Action"
  /\ \E k \in 1 .. 3 : /\ refined.rows[k].id = Num(6)
                         /\ refined.rows[k].primary_genre = "Unknown"
  /\ \E k \in 1 .. 3 : /\ refined.rows[k].id = Num(5)
                         /\ refined.rows[k].primary_genre = "Unknown"

\* The deduplicated rows the last transformer run aggregated.
Deduplicated == Derive(bronze.rows, sortKind = "stable")

\* One slot <<i, k>> per deduplicated row i with a release year and per
\* genre k of its list: the rows of the exploded frame that are kept.
Slots ==
  UNION {{<<i, k>> : k \in 1 .. Len(Deduplicated[i].genre_list)} :
           i \in {j \in 1 .. Len(Deduplicated) :
                    Deduplicated[j].released_year.t # "null"}}

SlotKey(c) == <<Deduplicated[c[1]].released_year.n,
                Deduplicated[c[1]].genre_list[c[2]]>>

SlotsOf(year, genre) == {c \in Slots : SlotKey(c) = <<year, genre>>}

RECURSIVE RatingTotal(_)
RatingTotal(S) ==
  IF S = {} THEN 0
  ELSE LET c == CHOOSE x \in S : TRUE
       IN Deduplicated[c[1]].rating.n + RatingTotal(S \ {c})

\* C13: games_analytics has exactly one row per (released_year, genre) pair
\* of the exploded deduplicated rows that have a year and a genre; its
\* game_count is the number of those rows and its avg_rating the sum of
\* their ratings over their number; every genre of a row's list counts; the
\* rows come by year descending and, within a year, by game_count descending.
C13_Aggregation ==
  (lastOp = "process" /\ lastT.outcome = "done" /\ lastT.analyticsOk) =>
     /\ \A c \in Slots :
          Cardinality({k \in 1 .. Len(analytics.rows) :
                         <<analytics.rows[k].released_year,
                           analytics.rows[k].genre>> = SlotKey(c)}) = 1
     /\ \A k \in 1 .. Len(analytics.rows) :
          LET a == analytics.rows[k]
              of == SlotsOf(a.released_year, a.genre)
          IN /\ of # {}
             /\ a.game_count = Cardinality(of)
             /\ a.avg_rating.rated = Cardinality(of)
             /\ a.avg_rating.sum = RatingTotal(of)
     /\ \A k, l \in 1 .. Len(analytics.rows) :
          k < l =>
            \/ analytics.rows[k].released_year > analytics.rows[l].released_year
            \/ /\ analytics.rows[k].released_year = analytics.rows[l].released_year
               /\ analytics.rows[k].game_count >= analytics.rows[l].game_count

C13_Witness ==
  /\ lastOp = "process" /\ lastT.outcome = "done" /\ lastT.analyticsOk
  /\ Len(bronze.rows) = 3
  /\ analytics.rows =
       << [released_year |-> 2020, genre |-> "RPG",
           avg_rating |-> [sum |-> 7, rated |-> 2], game_count |-> 2],
          [released_year |-> 2020, genre |-> "Action",
           avg_rating |-> [sum |-> 4, rated |-> 1], game_count |-> 1],
          [released_year |-> 2019, genre |-> "Action",
           avg_rating |-> [sum |-> 3, rated |-> 1], game_count |-> 1],
          [released_year |-> 2019, genre |-> "RPG",
           avg_rating |-> [sum |-> 3, rated |-> 1], game_count |-> 1] >>

\* The score of a bronze row as a number, when it is one.
TopScore(x) == x.t = "num" /\ x.n > 85

\* C14: in every refined row is_top_rated is a boolean that is true exactly
\* when the row's metacritic is a number greater than 85; the row comes
\* from a bronze row of its id whose score decides the same way, a score
\* of 85, a missing score and a score that is text giving false.
C14_TopRatedThreshold ==
  (lastOp = "process" /\ lastT.outcome = "done" /\ lastT.refinedOk) =>
     \A k \in 1 .. Len(refined.rows) :
        /\ refined.rows[k].is_top_rated \in BOOLEAN
        /\ refined.rows[k].is_top_rated <=> TopScore(refined.rows[k].metacritic)
        /\ \E i \in 1 .. Len(bronze.rows) :
             /\ SamePair(bronze.rows[i], refined.rows[k])
             /\ refined.rows[k].is_top_rated <=> TopScore(bronze.rows[i].metacritic)
             /\ bronze.rows[i].metacritic.t = "str" => ~refined.rows[k].is_top_rated

C14_Witness ==
  /\ Transformed /\ lastT.refinedOk
  /\ Len(refined.rows) = 3
  /\ \E k \in 1 .. 3 : /\ rawOf(lastI)[k].metacritic = Num(85)
                         /\ refined.rows[k].id = rawOf(lastI)[k].id
                         /\ ~refined.rows[k].is_top_rated
  /\ \E k \in 1 .. 3 : /\ rawOf(lastI)[k].metacritic = Num(86)
                         /\ refined.rows[k].id = rawOf(lastI)[k].id
                         /\ refined.rows[k].is_top_rated
  /\ \E k \in 1 .. 3 : /\ rawOf(lastI)[k].metacritic = Null
                         /\ refined.rows[k].id = rawOf(lastI)[k].id
                         /\ ~refined.rows[k].is_top_rated

\* The answers received, as the pages of a fetcher.
RespOf(fetched) ==
  [p \in 1 .. MaxPage |-> IF p <= Len(fetched) THEN fetched[p] ELSE FetchFail]

Capped == loop.pc # "idle" /\ Truthy(loop.maxPages)

\* C15: in a call with page cap N >= 1, whatever the fetcher answers, the
\* pages requested are among 1..N and at most N pages are accumulated; once
\* page exceeds N the next step of the loop is the break on the cap, made
\* without a request; and the loop ends.
C15_PageCap ==
  /\ [](Capped =>
          /\ Len(loop.requested) <= loop.maxPages
          /\ \A i \in 1 .. Len(loop.requested) :
               loop.requested[i] \in 1 .. loop.maxPages
          /\ Cardinality({i \in 1 .. Len(loop.fetched) :
                            loop.fetched[i].kind = "page"
                            /\ loop.fetched[i].results # <<>>}) <= loop.maxPages
          /\ loop.stop = "cap" => Len(loop.requested) = loop.maxPages)
  /\ [][(Capped /\ loop.pc = "loop" /\ loop.page > loop.maxPages)
          => /\ loop'.pc = "done" /\ loop'.stop = "cap"
             /\ loop'.requested = loop.requested]_vars
  /\ ((Capped /\ loop.pc \in {"loop", "fetching"}) ~> (loop.pc = "done"))

C15_Witness ==
  /\ loop.pc = "done" /\ loop.stop = "cap"
  /\ loop.maxPages = MaxPage
  /\ loop.requested = [i \in 1 .. MaxPage |-> i]
  /\ Len(loop.all_games) = MaxPage
  /\ Continues(loop.fetched[MaxPage])

InCall == loop.pc # "idle"

\* C16: in a call the pages requested are 1, 2, 3, ... in that order; a
\* request is outstanding only while the fetcher runs, so page k+1 is
\* requested after the answer to page k, and only when that answer was a
\* non-empty page with a next link; after an answer that fails, is invalid,
\* is empty or has no next link the loop is over, and nothing more is
\* requested in the call.
C16_SequentialPages ==
  /\ [](InCall =>
          /\ \A i \in 1 .. Len(loop.requested) : loop.requested[i] = i
          /\ Len(loop.requested)
               = Len(loop.fetched) + (IF loop.pc = "fetching" THEN 1 ELSE 0)
          /\ \A i \in 1 .. Len(loop.fetched) :
               i < Len(loop.requested) => Continues(loop.fetched[i])
          /\ \A i \in 1 .. Len(loop.fetched) :
               ~Continues(loop.fetched[i])
                 => /\ loop.pc = "done"
                    /\ i = Len(loop.requested))
  /\ [][(InCall /\ loop.pc = "done")
          => (loop'.requested = loop.requested \/ loop'.requested = <<>>)]_vars

C16_Witness ==
  /\ loop.pc = "done" /\ loop.stop = "nomore"
  /\ loop.requested = <<1, 2>>
  /\ Len(loop.fetched) = 2
  /\ Continues(loop.fetched[1])
  /\ loop.fetched[2].kind = "page" /\ ~loop.fetched[2].next

\* C20: a call with max_pages = 0 never breaks on the cap: it requests page
\* 1 and ends on the fetcher's answers alone, with the pages accumulated,
\* the answers consumed and the reason of the break that a call without
\* cap has on the same answers.
C20_ZeroCapIsNoCap ==
  (InCall /\ loop.maxPages = 0) =>
     /\ loop.stop # "cap"
     /\ loop.pc = "done" =>
          /\ Len(loop.requested) >= 1
          /\ loop.requested[1] = 1
          /\ LET r == Paginate(RespOf(loop.fetched), NoCap)
             IN /\ r.all_games = loop.all_games
                /\ r.fetched = loop.fetched
                /\ r.stop = loop.stop

C20_Witness ==
  /\ loop.pc = "done" /\ loop.maxPages = 0
  /\ loop.stop = "nomore"
  /\ loop.requested = <<1, 2>>
  /\ Len(loop.all_games) = 2

\* C17: in a column that is on the allow-list or holds a list, every raw
\* value that is not null is a string after normalization and every raw
\* null is still null.
C17_NullPreserved ==
  (lastOp = "ingest" /\ lastI.batch # <<>>) =>
     \A col \in Columns :
        (col \in complex_cols \/ AnyNested(rawOf(lastI), col)) =>
           \A i \in 1 .. Len(lastI.batch) :
              /\ ~IsNull(rawOf(lastI)[i][col]) => lastI.batch[i][col].t = "str"
              /\ IsNull(rawOf(lastI)[i][col]) => IsNull(lastI.batch[i][col])

\* C18: a run against an existing table that accumulated records and whose
\* delete and append succeeded leaves as the partition of its day exactly
\* its batch, whatever the partition held; when the run was cut short by
\* the failure of page k, that batch is pages 1..k-1 only.
C18_LastRunWins ==
  (lastOp = "ingest" /\ preI.state = "table" /\ lastI.batch # <<>>
   /\ lastI.outcome = "saved") =>
     /\ Part(bronze, lastI.day) = lastI.batch
     /\ lastI.stop = "error" =>
          Len(lastI.batch)
            = Len(PagesUpTo(lastI.fetched, Len(lastI.fetched) - 1))

C18_Witness ==
  /\ lastOp = "ingest" /\ preI.state = "table"
  /\ prevI.outcome = "saved" /\ lastI.outcome = "saved"
  /\ lastI.stop = "error" /\ Len(lastI.fetched) = 2
  /\ Len(Part(preI, lastI.day)) = 2
  /\ Len(Part(bronze, lastI.day)) = 1
  /\ Part(bronze, lastI.day) = lastI.batch

\* C19: a run of the transformer that got past READ returns normally
\* whichever write fails; a failed write is logged and leaves its table as
\* it was, and games_analytics is overwritten from the bronze rows whenever
\* its own write succeeds, also after the write of games_refined failed.
C19_RefinedFailureContinues ==
  (lastOp = "process" /\ lastT.outcome = "done") =>
     /\ ~lastT.refinedOk =>
          /\ refined = preT[refined_path]
          /\ "error: write refined" \in ProcessLog(lastT)
     /\ lastT.analyticsOk =>
          analytics.rows = Analytics(Derive(bronze.rows, sortKind = "stable"))
     /\ ~lastT.analyticsOk =>
          /\ analytics = preT[analytics_path]
          /\ "error: write analytics" \in ProcessLog(lastT)

C19_Witness ==
  /\ lastOp = "process" /\ lastT.outcome = "done"
  /\ ~lastT.refinedOk /\ lastT.analyticsOk
  /\ refined.rows # <<>>
  /\ refined = preT[refined_path]
  /\ refined.rows # Refined(Derive(bronze.rows, sortKind = "stable"))
  /\ analytics.rows # <<>>
  /\ analytics.rows # preT[analytics_path].rows

====
